---- MODULE Spec2Model ----
(***************************************************************************)
(* API 682 seal selector (src/app.py).                                     *)
(*                                                                         *)
(* The program is a Streamlit script: every change of a widget re-runs    *)
(* the whole script top to bottom, which recomputes category, fluid_group, *)
(* seal_type, arrangement, temp_range and barrier_fluid from the widget    *)
(* values and renders the result section.  Spec models that session.       *)
(* SpecFunctions applies each selection function on its own to arguments   *)
(* drawn from bounded sets.                                                *)
(*                                                                         *)
(* Python values whose type varies at run time (None / int / str) are      *)
(* tagged records [t, v]; number_input values are modelled at integer      *)
(* resolution.                                                             *)
(***************************************************************************)
EXTENDS Integers, Sequences, FiniteSets, TLC

VARIABLES
    pressure, temperature, speed,      \* number_input widgets
    fluid_type,                        \* selectbox "Fluid Type"
    checkbox,                          \* every st.checkbox, by variable name
    mandated_arrangement,              \* selectbox "Mandated Arrangement"
    category, fluid_group, contaminants, seal_type, arrangement,
    temp_range, barrier_fluid,         \* module-level results of the run
    shown,                             \* what the result section rendered
    call, ret, ret_line                \* a single function call, its result

widgets == <<pressure, temperature, speed, fluid_type, checkbox, mandated_arrangement>>
results == <<category, fluid_group, contaminants, seal_type, arrangement,
             temp_range, barrier_fluid, shown>>
harness == <<call, ret, ret_line>>
vars == <<widgets, results, harness>>

(***************************************************************************)
(* Python values                                                           *)
(***************************************************************************)
None == [t |-> "NoneType", v |-> 0]

PyInt(n) == [t |-> "int", v |-> n]

PyStr(s) == [t |-> "str", v |-> s]

\* Python ==
PyEq(a, b) == a.t = b.t /\ a.v = b.v

\* Python `x in [..]` on a list
PyIn(x, list) == \E i \in DOMAIN list : PyEq(x, list[i])

\* Python truth value
Truthy(x) ==
    CASE x.t = "NoneType" -> FALSE
      [] x.t = "int" -> x.v # 0
      [] x.t = "str" -> x.v # ""

\* Python `needle in hay` on str (case-sensitive substring)
Contains(needle, hay) ==
    \E i \in 1..(Len(hay) - Len(needle) + 1) :
        SubSeq(hay, i, i + Len(needle) - 1) = needle

\* dict.get(key) on a dict written as a list of <<key, value>>; None if absent
DictGet(d, k) ==
    IF \E i \in DOMAIN d : PyEq(d[i][1], k)
    THEN d[CHOOSE i \in DOMAIN d : PyEq(d[i][1], k)][2]
    ELSE None

(***************************************************************************)
(* Bounds                                                                  *)
(***************************************************************************)
\* widgets that differ from their initial value at the same time
MaxChanged == 3

\* flags that are true at the same time in a single-function call
MaxSet == 4

\* half-width of the integer window taken around each threshold
Margin == 1

(***************************************************************************)
(* Constants                                                               *)
(***************************************************************************)
CATEGORY_LIMITS ==
    [cat \in {1, 2, 3} |->
        CASE cat = 1 -> [pressure |-> 20, temp |-> 260, speed |-> 20]
          [] cat = 2 -> [pressure |-> 40, temp |-> 400, speed |-> 25]
          [] cat = 3 -> [pressure |-> 100, temp |-> 400, speed |-> 25]]

(***************************************************************************)
(* Selection logic                                                         *)
(***************************************************************************)
\* the for-loop of get_seal_category over the remaining tiers
RECURSIVE FirstCategory(_, _, _, _)
FirstCategory(cats, p, t, s) ==
    IF cats = <<>> THEN None
    ELSE IF /\ p <= CATEGORY_LIMITS[Head(cats)].pressure
            /\ t <= CATEGORY_LIMITS[Head(cats)].temp
            /\ s <= CATEGORY_LIMITS[Head(cats)].speed
         THEN PyInt(Head(cats))
         ELSE FirstCategory(Tail(cats), p, t, s)

\* mutant: strict comparisons
RECURSIVE FirstCategoryStrict(_, _, _, _)
FirstCategoryStrict(cats, p, t, s) ==
    IF cats = <<>> THEN None
    ELSE IF /\ p < CATEGORY_LIMITS[Head(cats)].pressure
            /\ t < CATEGORY_LIMITS[Head(cats)].temp
            /\ s < CATEGORY_LIMITS[Head(cats)].speed
         THEN PyInt(Head(cats))
         ELSE FirstCategoryStrict(Tail(cats), p, t, s)

get_seal_category_strict(p, t, s) == FirstCategoryStrict(<<1, 2, 3>>, p, t, s)

get_seal_category(p, t, s) == FirstCategory(<<1, 2, 3>>, p, t, s)

get_fluid_type_group(ft, flashing) ==
    IF ft = "Hydrocarbon"
    THEN (IF flashing THEN "Flashing Hydrocarbon" ELSE "Nonflashing Hydrocarbon")
    ELSE "Nonhydrocarbon"

\* mutant: inclusive thresholds
get_seal_type_return_incl(fg, temp, p) ==
    IF fg = "Nonhydrocarbon"
    THEN IF temp <= 80
         THEN [value |-> IF p <= 20 THEN "Type B" ELSE "Engineered System", line |-> 38]
         ELSE [value |-> "Engineered System", line |-> 40]
    ELSE IF Contains("Hydrocarbon", fg)
    THEN IF Contains("Nonflashing", fg)
         THEN IF temp <= 176
              THEN [value |-> IF p <= 20 THEN "Type A" ELSE "Type C", line |-> 47]
              ELSE IF temp <= 280
              THEN [value |-> IF p <= 20 THEN "Type C" ELSE "Engineered System", line |-> 49]
              ELSE [value |-> "Engineered System", line |-> 51]
         ELSE IF temp <= 176
              THEN [value |-> IF p <= 20 THEN "Type A" ELSE "Type C", line |-> 56]
              ELSE IF temp <= 260
              THEN [value |-> IF p <= 20 THEN "Type C" ELSE "Engineered System", line |-> 58]
              ELSE [value |-> "Engineered System", line |-> 60]
    ELSE [value |-> "Type A", line |-> 62]

\* get_seal_type with the line of the return statement taken; category and
\* contaminants are parameters the body never reads
get_seal_type_return(fg, temp, p) ==
    IF fg = "Nonhydrocarbon"
    THEN IF temp < 80
         THEN [value |-> IF p < 20 THEN "Type B" ELSE "Engineered System", line |-> 38]
         ELSE [value |-> "Engineered System", line |-> 40]
    ELSE IF Contains("Hydrocarbon", fg)
    THEN IF Contains("Nonflashing", fg)
         THEN IF temp < 176
              THEN [value |-> IF p < 20 THEN "Type A" ELSE "Type C", line |-> 47]
              ELSE IF temp < 280
              THEN [value |-> IF p < 20 THEN "Type C" ELSE "Engineered System", line |-> 49]
              ELSE [value |-> "Engineered System", line |-> 51]
         ELSE IF temp < 176
              THEN [value |-> IF p < 20 THEN "Type A" ELSE "Type C", line |-> 56]
              ELSE IF temp < 260
              THEN [value |-> IF p < 20 THEN "Type C" ELSE "Engineered System", line |-> 58]
              ELSE [value |-> "Engineered System", line |-> 60]
    ELSE [value |-> "Type A", line |-> 62]

get_seal_type(fg, temp, p, cat, contam) == get_seal_type_return(fg, temp, p).value

\* any(d.values())
AnyValue(d) == \E k \in DOMAIN d : d[k]

\* mutant: the mandate is checked after the rules instead of before them
get_arrangement_mandate_last(fg, exposure_hazard, vapor_risk, environmental_limits, solids, polymerizing, poor_lubricity, low_density, high_vapor_pressure, temp, zero_leakage, mandated, contam) ==
    IF fg = "Nonhydrocarbon" /\ AnyValue(contam) THEN PyInt(3)
    ELSE IF \/ zero_leakage \/ exposure_hazard \/ vapor_risk \/ environmental_limits
            \/ temp > 260 \/ solids \/ polymerizing \/ poor_lubricity
            \/ low_density \/ high_vapor_pressure
    THEN PyInt(3)
    ELSE IF Truthy(mandated) THEN mandated
    ELSE PyInt(1)

\* mutant: the fluid flags are left to the Arrangement 2 rule
get_arrangement_sheet6_only(fg, exposure_hazard, vapor_risk, environmental_limits, solids, polymerizing, poor_lubricity, low_density, high_vapor_pressure, temp, zero_leakage, mandated, contam) ==
    IF Truthy(mandated) THEN mandated
    ELSE IF fg = "Nonhydrocarbon" /\ AnyValue(contam) THEN PyInt(3)
    ELSE IF \/ zero_leakage \/ exposure_hazard \/ vapor_risk \/ environmental_limits
            \/ temp > 260
    THEN PyInt(3)
    ELSE IF \/ solids \/ polymerizing \/ poor_lubricity \/ low_density
            \/ high_vapor_pressure
    THEN PyInt(2)
    ELSE PyInt(1)

\* mutant: temp >= 260 selects Arrangement 3
get_arrangement_temp_incl(fg, exposure_hazard, vapor_risk, environmental_limits, solids, polymerizing, poor_lubricity, low_density, high_vapor_pressure, temp, zero_leakage, mandated, contam) ==
    IF Truthy(mandated) THEN mandated
    ELSE IF fg = "Nonhydrocarbon" /\ AnyValue(contam) THEN PyInt(3)
    ELSE IF \/ zero_leakage \/ exposure_hazard \/ vapor_risk \/ environmental_limits
            \/ temp >= 260 \/ solids \/ polymerizing \/ poor_lubricity
            \/ low_density \/ high_vapor_pressure
    THEN PyInt(3)
    ELSE PyInt(1)

\* mutant: the contaminant rule is missing
get_arrangement_no_contaminants(fg, exposure_hazard, vapor_risk, environmental_limits, solids, polymerizing, poor_lubricity, low_density, high_vapor_pressure, temp, zero_leakage, mandated, contam) ==
    IF Truthy(mandated) THEN mandated
    ELSE IF \/ zero_leakage \/ exposure_hazard \/ vapor_risk \/ environmental_limits
            \/ temp > 260 \/ solids \/ polymerizing \/ poor_lubricity
            \/ low_density \/ high_vapor_pressure
    THEN PyInt(3)
    ELSE PyInt(1)

\* get_arrangement; contam is the module-level dict `contaminants` the body reads
get_arrangement(fg, exposure_hazard, vapor_risk, environmental_limits, solids, polymerizing, poor_lubricity, low_density, high_vapor_pressure, temp, zero_leakage, mandated, contam) ==
    IF Truthy(mandated) THEN mandated
    ELSE IF fg = "Nonhydrocarbon" /\ AnyValue(contam) THEN PyInt(3)
    ELSE IF \/ zero_leakage \/ exposure_hazard \/ vapor_risk \/ environmental_limits
            \/ temp > 260 \/ solids \/ polymerizing \/ poor_lubricity
            \/ low_density \/ high_vapor_pressure
    THEN PyInt(3)
    ELSE IF \/ solids \/ polymerizing \/ poor_lubricity \/ low_density
            \/ high_vapor_pressure
    THEN PyInt(2)
    ELSE PyInt(1)

get_barrier_fluid_recommendation(ft, range) ==
    IF Contains("Hydrocarbon", ft)
    THEN IF range = "Low" THEN "Mineral oil (2-10 cSt at operating temp)"
         ELSE IF range = "Medium" THEN "Paraffin-based high purity oil"
         ELSE "Synthetic-based oil"
    ELSE "Water/ethylene glycol mixture (commercial antifreeze prohibited)"

\* mutant: the Medium band starts above 70 and the High band above 150
TempRangeIncl(t) == IF t <= 70 THEN "Low" ELSE IF t <= 150 THEN "Medium" ELSE "High"

\* temp_range = "Low" if temperature < 70 else "Medium" if temperature < 150 else "High"
TempRange(t) == IF t < 70 THEN "Low" ELSE IF t < 150 THEN "Medium" ELSE "High"

(***************************************************************************)
(* The result section                                                      *)
(***************************************************************************)
cat_desc ==
    << <<PyInt(1), PyStr("General Service Conditions")>>,
       <<PyInt(2), PyStr("Severe Service Conditions")>>,
       <<PyInt(3), PyStr("Extreme Service Conditions")>> >>

arr_desc ==
    << <<PyInt(1), PyStr("Single Seal (Arrangement 1)")>>,
       <<PyInt(2), PyStr("Tandem Seals (Arrangement 2)")>>,
       <<PyInt(3), PyStr("Double Seals (Arrangement 3)")>> >>

Item(fn, about, value) == [call |-> fn, about |-> about, value |-> value]

\* mutant: the recommendation is rendered whether or not a category was found
DisplayResultsAlways(cat, st, arr, bf) ==
    << Item("success", "category", cat),
       Item("success", "seal_type", PyStr(st)),
       Item("success", "arrangement", DictGet(arr_desc, arr)) >>

\* "Display Results": the st.* calls made, in order
DisplayResults(cat, st, arr, bf) ==
    IF Truthy(cat)
    THEN << Item("success", "category", DictGet(cat_desc, cat)),
            Item("success", "seal_type", PyStr(st)),
            Item("success", "arrangement", DictGet(arr_desc, arr)) >>
         \o (IF PyIn(arr, <<PyInt(2), PyInt(3)>>)
             THEN << Item("info", "barrier_fluid", PyStr(bf)) >>
             ELSE << >>)
         \o << Item("markdown", "requirements", arr) >>
         \o (IF PyEq(arr, PyInt(3))
             THEN << Item("markdown", "barrier_fluid_requirements", arr) >>
             ELSE << >>)
    ELSE << Item("error", "out_of_scope", None) >>

(***************************************************************************)
(* Module-level statements of the script                                   *)
(***************************************************************************)
Contaminants(cb) ==
    [k \in {"caustic", "h2s", "amines", "ammonia", "abrasive"} |-> cb[k]]

\* barrier_fluid = get_barrier_fluid_recommendation(..) if arrangement in [2, 3] else "Not required"
BarrierFluid(ft, range, arr) ==
    IF PyIn(arr, <<PyInt(2), PyInt(3)>>)
    THEN get_barrier_fluid_recommendation(ft, range)
    ELSE "Not required"

(***************************************************************************)
(* Widgets                                                                 *)
(***************************************************************************)
CheckboxNames ==
    {"is_flashing", "hazardous", "toxic", "flammable", "abrasive", "polymerizing",
     "poor_lubricity", "caustic", "h2s", "amines", "ammonia", "exposure_hazard",
     "vapor_risk", "environmental_limits", "monitoring_required", "zero_leakage",
     "low_density", "high_vapor_pressure"}

FluidTypeOptions == {"Hydrocarbon", "Nonhydrocarbon"}

MandateOptions ==
    <<None, PyStr("Arrangement 1"), PyStr("Arrangement 2"), PyStr("Arrangement 3")>>

\* values typed into the number inputs: the initial value, the values at and
\* just above the limits the script compares with, and 150 / 450 / 30
PressureInputs == {15, 20, 21, 40, 41, 100, 101, 150}

TemperatureInputs == {69, 70, 100, 149, 150, 260, 261, 400, 401, 450}

SpeedInputs == {10, 20, 21, 25, 26, 30}

InitialPressure == 15

InitialTemperature == 100

InitialSpeed == 10

InitialCheckbox == [c \in CheckboxNames |-> FALSE]

B2N(b) == IF b THEN 1 ELSE 0

CountChecked(cb, names) == Cardinality({c \in names : cb[c]})

\* number of widgets that do not hold their initial value
Changed(p, t, s, ft, cb, ma) ==
    B2N(p # InitialPressure) + B2N(t # InitialTemperature) + B2N(s # InitialSpeed)
    + B2N(ft # "Hydrocarbon") + B2N(Truthy(ma)) + CountChecked(cb, CheckboxNames)

\* a widget changed: the script runs again with the new widget values
\* (lines 165-182, then the result section)
Rerun(p, t, s, ft, cb, ma) ==
    /\ Changed(p, t, s, ft, cb, ma) <= MaxChanged
    /\ pressure' = p /\ temperature' = t /\ speed' = s
    /\ fluid_type' = ft /\ checkbox' = cb /\ mandated_arrangement' = ma
    /\ category' = get_seal_category(p, t, s)
    /\ fluid_group' = get_fluid_type_group(ft, cb["is_flashing"])
    /\ contaminants' = Contaminants(cb)
    /\ seal_type' = get_seal_type(fluid_group', t, p, category', contaminants')
    /\ arrangement' =
           get_arrangement(fluid_group', cb["exposure_hazard"], cb["vapor_risk"],
                           cb["environmental_limits"], cb["abrasive"],
                           cb["polymerizing"], cb["poor_lubricity"],
                           cb["low_density"], cb["high_vapor_pressure"],
                           t, cb["zero_leakage"], ma, contaminants')
    /\ temp_range' = TempRange(t)
    /\ barrier_fluid' = BarrierFluid(ft, temp_range', arrangement')
    /\ shown' = DisplayResults(category', seal_type', arrangement', barrier_fluid')
    /\ UNCHANGED harness

Pending == [t |-> "pending", v |-> 0]

NoCall == [fn |-> "none"]

\* the first run of the script, every widget at its initial value
FirstRun ==
    /\ pressure = InitialPressure /\ temperature = InitialTemperature
    /\ speed = InitialSpeed /\ fluid_type = "Hydrocarbon"
    /\ checkbox = InitialCheckbox /\ mandated_arrangement = None
    /\ category = get_seal_category(pressure, temperature, speed)
    /\ fluid_group = get_fluid_type_group(fluid_type, checkbox["is_flashing"])
    /\ contaminants = Contaminants(checkbox)
    /\ seal_type = get_seal_type(fluid_group, temperature, pressure, category, contaminants)
    /\ arrangement =
           get_arrangement(fluid_group, checkbox["exposure_hazard"], checkbox["vapor_risk"],
                           checkbox["environmental_limits"], checkbox["abrasive"],
                           checkbox["polymerizing"], checkbox["poor_lubricity"],
                           checkbox["low_density"], checkbox["high_vapor_pressure"],
                           temperature, checkbox["zero_leakage"], mandated_arrangement,
                           contaminants)
    /\ temp_range = TempRange(temperature)
    /\ barrier_fluid = BarrierFluid(fluid_type, temp_range, arrangement)
    /\ shown = DisplayResults(category, seal_type, arrangement, barrier_fluid)

Init == FirstRun /\ call = NoCall /\ ret = Pending /\ ret_line = 0

SetPressure ==
    \E v \in PressureInputs \ {pressure} :
        Rerun(v, temperature, speed, fluid_type, checkbox, mandated_arrangement)

SetTemperature ==
    \E v \in TemperatureInputs \ {temperature} :
        Rerun(pressure, v, speed, fluid_type, checkbox, mandated_arrangement)

SetSpeed ==
    \E v \in SpeedInputs \ {speed} :
        Rerun(pressure, temperature, v, fluid_type, checkbox, mandated_arrangement)

SetFluidType ==
    \E v \in FluidTypeOptions \ {fluid_type} :
        Rerun(pressure, temperature, speed, v, checkbox, mandated_arrangement)

ToggleCheckbox ==
    \E c \in CheckboxNames :
        Rerun(pressure, temperature, speed, fluid_type,
              [checkbox EXCEPT ![c] = ~checkbox[c]], mandated_arrangement)

SetMandatedArrangement ==
    \E i \in DOMAIN MandateOptions :
        /\ ~PyEq(MandateOptions[i], mandated_arrangement)
        /\ Rerun(pressure, temperature, speed, fluid_type, checkbox, MandateOptions[i])

Next ==
    \/ SetPressure
    \/ SetTemperature
    \/ SetSpeed
    \/ SetFluidType
    \/ ToggleCheckbox
    \/ SetMandatedArrangement

Spec == Init /\ [][Next]_vars

(***************************************************************************)
(* Single function calls                                                   *)
(***************************************************************************)
Around(th) == (th - Margin)..(th + Margin)

FluidGroups == {"Nonhydrocarbon", "Nonflashing Hydrocarbon", "Flashing Hydrocarbon"}

TempRanges == {"Low", "Medium", "High"}

\* mandated_arrangement as the data model has it (1, 2, 3) and as the
\* selectbox passes it (its option strings)
Mandates ==
    <<None, PyInt(1), PyInt(2), PyInt(3),
      PyStr("Arrangement 1"), PyStr("Arrangement 2"), PyStr("Arrangement 3")>>

\* the boolean parameters of get_arrangement
ArrangementFlags ==
    {"exposure_hazard", "vapor_risk", "environmental_limits", "solids", "polymerizing",
     "poor_lubricity", "low_density", "high_vapor_pressure", "zero_leakage"}

ContaminantNames == {"caustic", "h2s", "amines", "ammonia", "abrasive"}

\* arguments of one call of each function
CategoryCall ==
    \E p \in Around(20) \cup Around(40) \cup Around(100) \cup {0, 150},
       t \in Around(260) \cup Around(400) \cup {450},
       s \in Around(20) \cup Around(25) \cup {30} :
        call = [fn |-> "get_seal_category", pressure |-> p, temperature |-> t, speed |-> s]

FluidGroupCall ==
    \E ft \in FluidTypeOptions, flashing \in BOOLEAN :
        call = [fn |-> "get_fluid_type_group", fluid_type |-> ft, is_flashing |-> flashing]

SealTypeCall ==
    \E fg \in FluidGroups,
       t \in Around(80) \cup Around(176) \cup Around(260) \cup Around(280) \cup {100, 265},
       p \in Around(20) \cup {5, 10, 30} :
        call = [fn |-> "get_seal_type", fluid_group |-> fg, temp |-> t, pressure |-> p]

ArrangementCall ==
    \E fg \in FluidGroups, t \in Around(260), m \in DOMAIN Mandates,
       set \in SUBSET (ArrangementFlags \cup ContaminantNames) :
        /\ Cardinality(set) <= MaxSet
        /\ call = [fn |-> "get_arrangement", fluid_group |-> fg,
                   flags |-> [f \in ArrangementFlags |-> f \in set],
                   contaminants |-> [c \in ContaminantNames |-> c \in set],
                   temp |-> t, mandated_arrangement |-> Mandates[m]]

BarrierFluidCall ==
    \E ft \in FluidTypeOptions, range \in TempRanges :
        call = [fn |-> "get_barrier_fluid_recommendation",
                fluid_type |-> ft, temp_range |-> range]

InitFunctions ==
    /\ FirstRun
    /\ \/ CategoryCall
       \/ FluidGroupCall
       \/ SealTypeCall
       \/ ArrangementCall
       \/ BarrierFluidCall
    /\ ret = Pending
    /\ ret_line = 0

Call_get_seal_category ==
    /\ call.fn = "get_seal_category" /\ ret = Pending
    /\ ret' = get_seal_category(call.pressure, call.temperature, call.speed)
    /\ UNCHANGED <<widgets, results, call, ret_line>>

Call_get_fluid_type_group ==
    /\ call.fn = "get_fluid_type_group" /\ ret = Pending
    /\ ret' = PyStr(get_fluid_type_group(call.fluid_type, call.is_flashing))
    /\ UNCHANGED <<widgets, results, call, ret_line>>

Call_get_seal_type ==
    /\ call.fn = "get_seal_type" /\ ret = Pending
    /\ ret' = PyStr(get_seal_type(call.fluid_group, call.temp, call.pressure, None, <<>>))
    /\ ret_line' = get_seal_type_return(call.fluid_group, call.temp, call.pressure).line
    /\ UNCHANGED <<widgets, results, call>>

Call_get_arrangement ==
    /\ call.fn = "get_arrangement" /\ ret = Pending
    /\ ret' = get_arrangement(call.fluid_group, call.flags["exposure_hazard"],
                              call.flags["vapor_risk"], call.flags["environmental_limits"],
                              call.flags["solids"], call.flags["polymerizing"],
                              call.flags["poor_lubricity"], call.flags["low_density"],
                              call.flags["high_vapor_pressure"], call.temp,
                              call.flags["zero_leakage"], call.mandated_arrangement,
                              call.contaminants)
    /\ UNCHANGED <<widgets, results, call, ret_line>>

Call_get_barrier_fluid_recommendation ==
    /\ call.fn = "get_barrier_fluid_recommendation" /\ ret = Pending
    /\ ret' = PyStr(get_barrier_fluid_recommendation(call.fluid_type, call.temp_range))
    /\ UNCHANGED <<widgets, results, call, ret_line>>

NextFunctions ==
    \/ Call_get_seal_category
    \/ Call_get_fluid_type_group
    \/ Call_get_seal_type
    \/ Call_get_arrangement
    \/ Call_get_barrier_fluid_recommendation

SpecFunctions == InitFunctions /\ [][NextFunctions]_vars

(***************************************************************************)
(* Properties                                                              *)
(***************************************************************************)
Returned(fn) == call.fn = fn /\ ret # Pending

\* the tier table as the specification prints it
TierFits(k, p, t, s) ==
    CASE k = 1 -> p <= 20 /\ t <= 260 /\ s <= 20
      [] k = 2 -> p <= 40 /\ t <= 400 /\ s <= 25
      [] k = 3 -> p <= 100 /\ t <= 400 /\ s <= 25

\* C1: get_seal_category returns the lowest-numbered tier whose three limits
\* (20/260/20, 40/400/25, 100/400/25, inclusive) all hold, None exactly when
\* no tier fits, and 1 for every input within the tier-1 limits.
C1_LowestFittingTier ==
    Returned("get_seal_category") =>
        LET p == call.pressure
            t == call.temperature
            s == call.speed
        IN  /\ \A k \in 1..3 :
                   PyEq(ret, PyInt(k)) <=>
                       /\ TierFits(k, p, t, s)
                       /\ \A j \in 1..(k - 1) : ~TierFits(j, p, t, s)
            /\ PyEq(ret, None) <=> \A k \in 1..3 : ~TierFits(k, p, t, s)
            /\ (p <= 20 /\ t <= 260 /\ s <= 20) => PyEq(ret, PyInt(1))

\* an input on the tier-1 limits themselves is classified as tier 1
C1_Witness ==
    /\ Returned("get_seal_category")
    /\ call.pressure = 20 /\ call.temperature = 260 /\ call.speed = 20
    /\ PyEq(ret, PyInt(1))

NoTierFits == \A k \in 1..3 : ~TierFits(k, pressure, temperature, speed)

\* C2: when the inputs exceed every tier the run ends out of scope: category
\* is None, the only thing rendered is the out-of-scope error, and no
\* category, seal type or arrangement is presented; when some tier fits the
\* out-of-scope error is not rendered.
C2_OutOfScope ==
    /\ NoTierFits =>
          /\ PyEq(category, None)
          /\ Len(shown) = 1
          /\ shown[1].call = "error" /\ shown[1].about = "out_of_scope"
    /\ ~NoTierFits =>
          /\ category.t = "int" /\ category.v \in 1..3
          /\ \A i \in DOMAIN shown : shown[i].call # "error"
          /\ \E i \in DOMAIN shown : shown[i].about = "category"

\* the specification's example 150 / 450 / 30 ends out of scope
C2_Witness ==
    /\ pressure = 150 /\ temperature = 450 /\ speed = 30
    /\ PyEq(category, None)
    /\ shown[1].about = "out_of_scope"

\* the seal type table as the specification prints it
SealTypeTable(fg, temp, p) ==
    CASE fg = "Nonhydrocarbon" ->
             IF temp < 80 /\ p < 20 THEN "Type B" ELSE "Engineered System"
      [] fg = "Nonflashing Hydrocarbon" ->
             IF temp < 176 THEN (IF p < 20 THEN "Type A" ELSE "Type C")
             ELSE IF temp < 280 THEN (IF p < 20 THEN "Type C" ELSE "Engineered System")
             ELSE "Engineered System"
      [] fg = "Flashing Hydrocarbon" ->
             IF temp < 176 THEN (IF p < 20 THEN "Type A" ELSE "Type C")
             ELSE IF temp < 260 THEN (IF p < 20 THEN "Type C" ELSE "Engineered System")
             ELSE "Engineered System"

\* C3: get_seal_type equals the ordered first-match table with strict "<";
\* the boundary values 80, 176, 260, 280 and pressure 20 fall into the next
\* bracket, and the "Type A" default of line 62 is never the return taken
\* for the three fluid groups.
C3_SealTypeTable ==
    Returned("get_seal_type") =>
        LET fg == call.fluid_group
            temp == call.temp
            p == call.pressure
        IN  /\ ret = PyStr(SealTypeTable(fg, temp, p))
            /\ ret_line # 62
            /\ (fg = "Nonhydrocarbon" /\ temp = 80) => ret.v = "Engineered System"
            /\ (fg # "Nonhydrocarbon" /\ temp = 176) => ret.v # "Type A"
            /\ (fg = "Nonflashing Hydrocarbon" /\ temp = 280) => ret.v = "Engineered System"
            /\ (fg = "Flashing Hydrocarbon" /\ temp = 260) => ret.v = "Engineered System"
            /\ p = 20 => ret.v \notin {"Type A", "Type B"}

\* temperature exactly 176 at low pressure is already a Type C
C3_Witness ==
    /\ Returned("get_seal_type")
    /\ call.fluid_group = "Nonflashing Hydrocarbon"
    /\ call.temp = 176 /\ call.pressure = 19
    /\ ret = PyStr("Type C")

NoMandate == PyEq(call.mandated_arrangement, None)

AnyFlag == \E f \in ArrangementFlags : call.flags[f]

AnyContaminant == \E c \in ContaminantNames : call.contaminants[c]

\* C4: with a mandated arrangement set, get_arrangement returns exactly the
\* mandated value whatever the fluid group, contaminants, temperature and
\* flags are.
C4_MandateWins ==
    (Returned("get_arrangement") /\ ~NoMandate) =>
        PyEq(ret, call.mandated_arrangement)

\* a mandate of 2 is returned although zero_leakage and a contaminant of a
\* nonhydrocarbon ask for Arrangement 3
C4_Witness ==
    /\ Returned("get_arrangement")
    /\ PyEq(call.mandated_arrangement, PyInt(2))
    /\ call.flags["zero_leakage"]
    /\ call.fluid_group = "Nonhydrocarbon" /\ call.contaminants["caustic"]
    /\ PyEq(ret, PyInt(2))

\* C5: the arrangement of every run is one of the numbers 1, 2, 3.
C5_ArrangementIsNumber == arrangement.t = "int" /\ arrangement.v \in {1, 2, 3}

\* the arrangement a value stands for, number or selectbox option
ArrangementNumber(a) ==
    CASE a.t = "int" -> a.v
      [] a.t = "str" /\ a.v = "Arrangement 1" -> 1
      [] a.t = "str" /\ a.v = "Arrangement 2" -> 2
      [] a.t = "str" /\ a.v = "Arrangement 3" -> 3

BarrierFluidTexts ==
    {"Mineral oil (2-10 cSt at operating temp)", "Paraffin-based high purity oil",
     "Synthetic-based oil",
     "Water/ethylene glycol mixture (commercial antifreeze prohibited)"}

\* C6: barrier_fluid is "Not required" exactly when the final arrangement is
\* Arrangement 1, and a recommendation text when it is Arrangement 2 or 3,
\* derived or mandated.
C6_BarrierFluidFollowsArrangement ==
    /\ barrier_fluid = "Not required" <=> ArrangementNumber(arrangement) = 1
    /\ ArrangementNumber(arrangement) \in {2, 3} => barrier_fluid \in BarrierFluidTexts

\* C7: with no mandate, get_arrangement returns 3 for a nonhydrocarbon with
\* any contaminant, and whenever any flag is set or temp > 260.
C7_Arrangement3 ==
    (Returned("get_arrangement") /\ NoMandate) =>
        /\ (call.fluid_group = "Nonhydrocarbon" /\ AnyContaminant) => PyEq(ret, PyInt(3))
        /\ (AnyFlag \/ call.temp > 260) => PyEq(ret, PyInt(3))

\* the contaminant rule alone selects Arrangement 3
C7_Witness ==
    /\ Returned("get_arrangement") /\ NoMandate
    /\ call.fluid_group = "Nonhydrocarbon" /\ call.contaminants["caustic"]
    /\ ~AnyFlag /\ call.temp <= 260
    /\ PyEq(ret, PyInt(3))

\* C8: with no mandate, no flag, no contaminant and temp <= 260,
\* get_arrangement returns 1 for every fluid group.
C8_Arrangement1 ==
    (Returned("get_arrangement") /\ NoMandate /\ ~AnyFlag /\ ~AnyContaminant
        /\ call.temp <= 260) => PyEq(ret, PyInt(1))

\* temperature exactly 260 still gives Arrangement 1
C8_Witness ==
    /\ Returned("get_arrangement") /\ NoMandate /\ ~AnyFlag /\ ~AnyContaminant
    /\ call.temp = 260
    /\ PyEq(ret, PyInt(1))

\* the barrier fluid table as the specification prints it
BarrierFluidTable(ft, temp) ==
    IF ft = "Hydrocarbon"
    THEN IF temp < 70 THEN "Mineral oil (2-10 cSt at operating temp)"
         ELSE IF temp < 150 THEN "Paraffin-based high purity oil"
         ELSE "Synthetic-based oil"
    ELSE "Water/ethylene glycol mixture (commercial antifreeze prohibited)"

\* C9: a recommended barrier fluid is the text for the fluid type and the
\* temperature band (< 70 Low, < 150 Medium, else High; 70 is Medium, 150 is
\* High), and temp_range is that band.
C9_BarrierFluidByBand ==
    /\ temp_range = (IF temperature < 70 THEN "Low"
                     ELSE IF temperature < 150 THEN "Medium" ELSE "High")
    /\ barrier_fluid # "Not required" =>
           barrier_fluid = BarrierFluidTable(fluid_type, temperature)

\* at exactly 70 degrees a hydrocarbon gets the Medium-band oil
C9_Witness ==
    /\ fluid_type = "Hydrocarbon" /\ temperature = 70
    /\ PyEq(arrangement, PyInt(3))
    /\ barrier_fluid = "Paraffin-based high purity oil"

\* C10: with no mandate get_arrangement returns 1 or 3, never 2; a result
\* of 2 comes from a mandate of 2 only.
C10_NeverArrangement2 ==
    Returned("get_arrangement") =>
        /\ NoMandate => (PyEq(ret, PyInt(1)) \/ PyEq(ret, PyInt(3)))
        /\ PyEq(ret, PyInt(2)) => PyEq(call.mandated_arrangement, PyInt(2))

\* the flags of the Arrangement 2 rule give Arrangement 3
C10_Witness ==
    /\ Returned("get_arrangement") /\ NoMandate
    /\ call.flags["poor_lubricity"]
    /\ \A f \in ArrangementFlags \ {"poor_lubricity"} : ~call.flags[f]
    /\ call.temp <= 260 /\ ~AnyContaminant
    /\ PyEq(ret, PyInt(3))

====
